---- MODULE Spec2Model ----
(***************************************************************************)
(* Session billing and wallet ledger of the NakshatraTalks backend.        *)
(*                                                                         *)
(* The datastore tables users, astrologers, chat_sessions and transactions *)
(* are the state.  Every request handler is cut at its datastore calls:    *)
(* one action per await, so that handlers of different requests can        *)
(* interleave exactly where the event loop lets them.                      *)
(*                                                                         *)
(* Units: money is counted in paise (1/100 rupee, the DECIMAL(10,2) grain  *)
(* of the columns), time in ticks of 10 seconds, so that a duration in     *)
(* minutes is ticks / TicksPerMinute.  The duration columns hold the       *)
(* number of minutes multiplied by TicksPerMinute.                         *)
(***************************************************************************)
EXTENDS Integers, Sequences, FiniteSets, TLC

\* ---------------------------------------------------------------- bounds
MaxTime == 40
MaxSessions == 2
MaxBalance == 10000
MaxTx == 2
MaxRequests == 5

\* inputs of the interleaved specification
ConcMaxTime == 31
ConcUsers == {"u1"}
ConcAstrologers == {"a1"}
ConcSessionTypes == {"video"}
ConcAmounts == {2000}
ConcRatings == {5}
ConcTimeSteps == {31}

\* inputs of the specification with price changes
PriceUsers == {"u1"}
PriceAstrologers == {"a1"}
PriceSessionTypes == {"chat", "video"}
PriceAmounts == {5000}
PriceInputs == {400, 1000}
PriceTimeSteps == {31}

\* inputs of the specification of the request checks
GateAmounts == {5000}
GateRatings == {0, 3, 5}
GateTimeSteps == {31}

\* Inputs of the specification with the balance pre-check.
ValidateUsers == {"u1"}
ValidateAstrologers == {"a1", "a2"}
ValidateInputs == {"a1", "a2", "a9", "null"}
ValidateSessionTypes == {"chat", "video"}
ValidateAmounts == {300, 2000, 5000}
ValidateTimeSteps == {9}

\* Inputs of the specifications with reviews.
ReviewUsers == {"u1", "u2"}
ReviewPayers == {"u1"}
ReviewAstrologers == {"a1"}
ReviewAstrologerInputs == {"a1", "a2"}
ReviewSessionTypes == {"video"}
ReviewAmounts == {5000}
ReviewRatings == {0, 3, 5, 6}
ReviewStatuses == {"pending", "approved", "rejected", "hidden"}
ReviewTimeSteps == {9}
ReviewConcUsers == {"u1"}
ReviewConcRatings == {5}
ReviewConcTimeSteps == {31}

\* Inputs of the specification with concurrent balance operations.
RaceUsers == {"u1"}
RaceAstrologers == {"a1"}
RaceSessionTypes == {"video"}
RaceAmounts == {2000}
RaceTimeSteps == {9}

\* Inputs of the specification with the auto-offline job.
SweepCallers == {"a1", "a9", "admin"}
SweepInputs == {"a1", "a9"}
\* the JSON values true and false, and a string
SweepFlags == {"true", "false", "yes"}

\* ------------------------------------------------------ program constants
TicksPerMinute == 6
MinimumMinutes == 5

\* null of a text column or local, and null of a numeric one
NULL == "null"
NONE == 0 - 1

Users == {"u1", "u2"}
\* the users who recharge; the others hold the balance 0 of a new profile
Payers == {"u1"}
Procs == {"p1", "p2"}
AstrologerIds == {"a1", "a2", "a3"}
AstrologerInputs == AstrologerIds \cup {"a9"}
Controllers == {"chat", "call"}
SessionTypes == {"chat", "call", "video", "audio"}
RechargeAmounts == {0 - 5000, 0, 5000}
TimeSteps == {9, 31}
Ratings == {0, 5}

\* -------------------------------------------------------------- variables
VARIABLES
  now,           \* wall clock, in ticks
  wallet,        \* users.wallet_balance, in paise
  astrologers,   \* astrologers table
  sessions,      \* chat_sessions table, a sequence; the row id is the index
  transactions,  \* transactions table, a sequence in insertion order
  pc,            \* per request slot: the await the handler is suspended at
  loc,           \* per request slot: the handler's locals and its response
  requests,      \* number of requests received so far
  response,      \* per request slot: the data of the last validate-balance response
  reviews,       \* reviews table, a sequence in insertion order
  availability,  \* astrologers.chat_available, call_available, last_activity_at
  lastSweep      \* time of the last run of the auto-offline job

vars == <<now, wallet, astrologers, sessions, transactions, pc, loc, requests,
          response, reviews, availability, lastSweep>>

\* The state the session and wallet handlers neither read nor write.
aux == <<response, reviews, availability, lastSweep>>

\* --------------------------------------------------------------- helpers
\* Locals of a handler; a slot that is idle still holds the locals and the
\* response code of the request it served last.
Idle == [op |-> "none", ctrl |-> NULL, user |-> NULL, astro |-> NULL,
         stype |-> NULL, sid |-> NONE, amount |-> NONE, price |-> NONE,
         balanceBefore |-> NONE, newBalance |-> NONE, endTime |-> NONE,
         duration |-> NONE, txId |-> NONE, deduct |-> NULL, code |-> NULL,
         rating |-> NONE, rid |-> NONE, avgRating |-> NONE,
         totalReviews |-> NONE]

\* No validate-balance response was sent yet.
NoResponse == [canStart |-> FALSE, currentBalance |-> NONE,
               pricePerMinute |-> NONE, minimumRequired |-> NONE,
               estimatedMinutes |-> NONE, shortfall |-> NONE]

\* The slot after the response was sent: what is kept of the request is its
\* kind and the response code.
Responded(l, code) == [Idle EXCEPT !.op = l.op, !.code = code]

\* A request is received.
Accept == requests < MaxRequests /\ requests' = requests + 1

SessionIds == 1..Len(sessions)

\* ------------------------------------------------------------------ Init
Init ==
  /\ now = 0
  /\ wallet = [u \in Users |-> 0]
  /\ astrologers =
       [a \in AstrologerIds |->
          CASE a = "a1" -> [status |-> "approved", is_available |-> TRUE,
                            chat_price_per_minute |-> 1000,
                            call_price_per_minute |-> 400,
                            total_calls |-> 0,
                            rating |-> 0, total_reviews |-> 0]
            [] a = "a2" -> [status |-> "approved", is_available |-> FALSE,
                            chat_price_per_minute |-> 400,
                            call_price_per_minute |-> 400,
                            total_calls |-> 0,
                            rating |-> 0, total_reviews |-> 0]
            [] OTHER    -> [status |-> "pending", is_available |-> TRUE,
                            chat_price_per_minute |-> 400,
                            call_price_per_minute |-> 400,
                            total_calls |-> 0,
                            rating |-> 0, total_reviews |-> 0]]
  /\ sessions = <<>>
  /\ transactions = <<>>
  /\ pc = [p \in Procs |-> "idle"]
  /\ loc = [p \in Procs |-> Idle]
  /\ requests = 0
  /\ response = [p \in Procs |-> NoResponse]
  /\ reviews = <<>>
  /\ availability = [a \in AstrologerIds |->
                       [chat_available |-> FALSE, call_available |-> FALSE,
                        last_activity_at |-> NONE]]
  /\ lastSweep = NONE

\* ---------------------------------------------------------- Wallet Ledger
\* Faulty variant: only a negative amount is refused.
InvalidAmountNegativeOnly(amount) == amount < 0

\* rechargeWallet: `!amount || amount <= 0`
InvalidAmount(amount) == amount = 0 \/ amount <= 0

\* Faulty variant: the credit replaces the balance.
RechargeNewBalanceReplaces(balanceBefore, amount) == amount

\* `currentBalance + amount`
RechargeNewBalance(balanceBefore, amount) == balanceBefore + amount

\* Faulty variant: the row carries the balance after the write as the
\* balance before.
RechargeTxnAfterOnly(u, amount, balanceBefore, newBalance) ==
  [user_id |-> u, type |-> "recharge", amount |-> amount,
   description |-> "Wallet recharge", session_id |-> NONE, astrologer_id |-> NULL, duration |-> NONE,
   status |-> "success",
   balance_before |-> newBalance, balance_after |-> newBalance]

RechargeTxn(u, amount, balanceBefore, newBalance) ==
  [user_id |-> u, type |-> "recharge", amount |-> amount,
   description |-> "Wallet recharge", session_id |-> NONE, astrologer_id |-> NULL, duration |-> NONE,
   status |-> "success",
   balance_before |-> balanceBefore, balance_after |-> newBalance]

\* rechargeWallet up to and including the read of the balance.
RechargeRead(p, u, amount) ==
  /\ pc[p] = "idle"
  /\ Accept
  /\ Len(transactions) < MaxTx
  /\ IF InvalidAmount(amount)
       THEN /\ loc' = [loc EXCEPT ![p] =
                         Responded([Idle EXCEPT !.op = "recharge"],
                                   "VALIDATION_ERROR")]
            /\ pc' = pc
       ELSE IF u \notin DOMAIN wallet
       THEN /\ loc' = [loc EXCEPT ![p] =
                         Responded([Idle EXCEPT !.op = "recharge"],
                                   "NOT_FOUND")]
            /\ pc' = pc
       ELSE /\ wallet[u] + amount <= MaxBalance
            /\ loc' = [loc EXCEPT ![p] = [Idle EXCEPT !.op = "recharge",
                         !.user = u, !.amount = amount,
                         !.balanceBefore = wallet[u],
                         !.newBalance = RechargeNewBalance(wallet[u], amount)]]
            /\ pc' = [pc EXCEPT ![p] = "r_update"]
  /\ UNCHANGED <<now, wallet, astrologers, sessions, transactions, aux>>

\* rechargeWallet: users.update({wallet_balance: newBalance})
RechargeUpdate(p) ==
  /\ pc[p] = "r_update"
  /\ wallet' = [wallet EXCEPT ![loc[p].user] = loc[p].newBalance]
  /\ pc' = [pc EXCEPT ![p] = "r_insert"]
  /\ UNCHANGED <<now, astrologers, sessions, transactions, loc, requests, aux>>

\* Faulty variant: a failed insert of the transaction fails the request.
AfterRechargeInsertSurfaces(txnError) == IF txnError THEN "SERVER_ERROR" ELSE "OK"

\* `if (txnError) { console.error(...) }` and then sendSuccess either way
AfterRechargeInsert(txnError) == "OK"

\* The response of rechargeWallet after the insert, with data.newBalance.
RechargeResponse(l, txnError) ==
  [Responded(l, AfterRechargeInsert(txnError)) EXCEPT !.newBalance = l.newBalance]

\* rechargeWallet: transactions.insert(...) and the success response.
RechargeInsert(p) ==
  /\ pc[p] = "r_insert"
  /\ transactions' = Append(transactions,
       RechargeTxn(loc[p].user, loc[p].amount, loc[p].balanceBefore,
                   loc[p].newBalance))
  /\ loc' = [loc EXCEPT ![p] = RechargeResponse(loc[p], FALSE)]
  /\ pc' = [pc EXCEPT ![p] = "idle"]
  /\ UNCHANGED <<now, wallet, astrologers, sessions, requests, aux>>

\* rechargeWallet when the update of the balance returns an error.
RechargeUpdateFails(p) ==
  /\ pc[p] = "r_update"
  /\ loc' = [loc EXCEPT ![p] = Responded(loc[p], "SERVER_ERROR")]
  /\ pc' = [pc EXCEPT ![p] = "idle"]
  /\ UNCHANGED <<now, wallet, astrologers, sessions, transactions, requests, aux>>

\* rechargeWallet when the insert of the transaction returns an error: it is
\* logged and the success response is sent.
RechargeInsertFails(p) ==
  /\ pc[p] = "r_insert"
  /\ loc' = [loc EXCEPT ![p] = RechargeResponse(loc[p], TRUE)]
  /\ pc' = [pc EXCEPT ![p] = "idle"]
  /\ UNCHANGED <<now, wallet, astrologers, sessions, transactions, requests, aux>>

\* Faulty variant: five minutes of every active session are held back from
\* the balance.
InsufficientBalanceWithHold(balanceBefore, amount) ==
  \/ balanceBefore < amount
  \/ \E i \in 1..Len(sessions) :
       /\ sessions[i].status = "active"
       /\ balanceBefore - MinimumMinutes * sessions[i].price_per_minute < amount

\* Faulty variant: the debit is refused only on an empty wallet.
InsufficientBalanceEmptyOnly(balanceBefore, amount) == balanceBefore <= 0

\* Faulty variant: the sufficiency check is skipped.
InsufficientBalanceNever(balanceBefore, amount) == balanceBefore < 0

\* deductFromWallet: `balanceBefore < amount`
InsufficientBalance(balanceBefore, amount) == balanceBefore < amount

\* Faulty variant: the amount is added instead of subtracted.
DeductNewBalanceAdds(balanceBefore, amount) == balanceBefore + amount

DeductNewBalance(balanceBefore, amount) == balanceBefore - amount

\* Faulty variant: the debit row carries the amount without its sign.
DebitTxnUnsigned(u, amount, description, astrologerId, sessionId, duration, balanceBefore, newBalance) ==
  [user_id |-> u, type |-> "debit", amount |-> amount,
   description |-> description, session_id |-> sessionId, astrologer_id |-> astrologerId,
   duration |-> duration, status |-> "completed",
   balance_before |-> balanceBefore, balance_after |-> newBalance]

DebitTxn(u, amount, description, astrologerId, sessionId, duration, balanceBefore, newBalance) ==
  [user_id |-> u, type |-> "debit", amount |-> 0 - amount,
   description |-> description, session_id |-> sessionId, astrologer_id |-> astrologerId,
   duration |-> duration, status |-> "completed",
   balance_before |-> balanceBefore, balance_after |-> newBalance]

\* The description the caller passes: "<type> session with astrologer" from
\* end*Session, "<type> session ended automatically" from endExistingSession.
Description(op) ==
  IF op = "end" THEN "session with astrologer" ELSE "session ended automatically"

\* Faulty variant: end*Session goes on to complete the session whatever the result,
\* as endExistingSession does.
AfterDeductIgnoresResult(p, success) ==
  IF loc[p].op = "end" THEN "e_update" ELSE "x_update"

\* Where the caller of deductFromWallet resumes: endChatSession and
\* endCallSession return the error to the client, endExistingSession
\* ignores the result.
AfterDeduct(p, success) ==
  IF loc[p].op = "end"
    THEN IF success THEN "e_update" ELSE "idle"
    ELSE "x_update"

\* deductFromWallet: read of the balance and the sufficiency check.
DeductRead(p) ==
  /\ pc[p] = "d_read"
  /\ LET balanceBefore == wallet[loc[p].user] IN
       IF InsufficientBalance(balanceBefore, loc[p].amount)
         THEN /\ loc' = [loc EXCEPT ![p] =
                           IF loc[p].op = "end"
                             THEN Responded(loc[p], "INSUFFICIENT_BALANCE")
                             ELSE [loc[p] EXCEPT
                                     !.balanceBefore = balanceBefore,
                                     !.deduct = "Insufficient balance"]]
              /\ pc' = [pc EXCEPT ![p] = AfterDeduct(p, FALSE)]
         ELSE /\ loc' = [loc EXCEPT ![p].balanceBefore = balanceBefore,
                           ![p].newBalance =
                              DeductNewBalance(balanceBefore, loc[p].amount)]
              /\ pc' = [pc EXCEPT ![p] = "d_update"]
  /\ UNCHANGED <<now, wallet, astrologers, sessions, transactions, requests, aux>>

\* deductFromWallet: users.update({wallet_balance: newBalance})
DeductUpdate(p) ==
  /\ pc[p] = "d_update"
  /\ wallet' = [wallet EXCEPT ![loc[p].user] = loc[p].newBalance]
  /\ pc' = [pc EXCEPT ![p] = "d_insert"]
  /\ UNCHANGED <<now, astrologers, sessions, transactions, loc, requests, aux>>

\* deductFromWallet: transactions.insert(...) and the success result.
DeductInsert(p) ==
  /\ pc[p] = "d_insert"
  /\ transactions' = Append(transactions,
       DebitTxn(loc[p].user, loc[p].amount, Description(loc[p].op),
                sessions[loc[p].sid].astrologer_id, loc[p].sid,
                loc[p].duration, loc[p].balanceBefore, loc[p].newBalance))
  /\ loc' = [loc EXCEPT ![p].txId = Len(transactions) + 1,
                        ![p].deduct = "success"]
  /\ pc' = [pc EXCEPT ![p] = AfterDeduct(p, TRUE)]
  /\ UNCHANGED <<now, wallet, astrologers, sessions, requests, aux>>

\* ------------------------------------------------------ Session Lifecycle
CeilDiv(n, d) == (n + d - 1) \div d

\* Number.prototype.toFixed(2) of n/d paise: to the nearest paisa.  Every
\* price of the model is even, so n/d is never exactly half a paisa.
RoundDiv(n, d) == (2 * n + d) \div (2 * d)

\* chat controller: Math.ceil((endTime - startTime) / (1000 * 60)), held in
\* the unit of the duration column.
ChatDuration(elapsed) == CeilDiv(elapsed, TicksPerMinute) * TicksPerMinute

\* Faulty variant: the minutes are rounded down and one is added, so a whole
\* number of minutes is billed one minute too many.
ChatCostNextMinute(elapsed, price) == (elapsed \div TicksPerMinute + 1) * price

\* chat controller: durationMinutes * session.price_per_minute
ChatCost(elapsed, price) == CeilDiv(elapsed, TicksPerMinute) * price

\* call controller: durationSeconds / 60
CallDuration(elapsed) == elapsed

\* call controller: parseFloat((durationMinutes * price).toFixed(2))
CallCost(elapsed, price) == RoundDiv(elapsed * price, TicksPerMinute)

DurationMinutes(ctrl, elapsed) ==
  IF ctrl = "chat" THEN ChatDuration(elapsed) ELSE CallDuration(elapsed)

TotalCost(ctrl, elapsed, price) ==
  IF ctrl = "chat" THEN ChatCost(elapsed, price) ELSE CallCost(elapsed, price)

\* validSessionTypes of startChatSession and of startCallSession
ValidSessionTypes(ctrl) ==
  IF ctrl = "chat" THEN {"chat", "call", "video"} ELSE {"call", "video"}

\* startChatSession picks the price by session type, startCallSession
\* always takes the call price.
PricePerMinute(ctrl, stype, a) ==
  IF ctrl = "chat" /\ stype = "chat"
    THEN astrologers[a].chat_price_per_minute
    ELSE astrologers[a].call_price_per_minute

MinimumRequired(pricePerMinute) == pricePerMinute * MinimumMinutes

\* Faulty variant: the balance is held against one minute, not five.
BelowMinimumOneMinute(balance, minimumRequired) == balance * MinimumMinutes < minimumRequired

\* Faulty variant: a balance of exactly the minimum is refused too.
BelowMinimumOrEqual(balance, minimumRequired) == balance <= minimumRequired

\* `(user.wallet_balance || 0) < minimumRequired`
BelowMinimum(balance, minimumRequired) == balance < minimumRequired

ActiveSessionsOf(u) ==
  {i \in SessionIds : sessions[i].user_id = u /\ sessions[i].status = "active"}

\* Faulty variant: the lookup of the active session finds nothing.
ExistingSessionNotFound(u) == NONE

\* Faulty variant: the lookup is filtered neither by user nor by status.
ExistingSessionAnyRow(u) == IF SessionIds # {} THEN 1 ELSE NONE

\* chat_sessions.select('id').eq(user_id).eq(status, active).maybeSingle():
\* the row when exactly one matches, no data when none matches, and an
\* error without data (which the handler does not look at) when several do.
ExistingSession(u) ==
  IF Cardinality(ActiveSessionsOf(u)) = 1
    THEN CHOOSE i \in ActiveSessionsOf(u) : TRUE
    ELSE NONE

NewSession(u, a, stype, pricePerMinute, startTime) ==
  [user_id |-> u, astrologer_id |-> a, session_type |-> stype,
   start_time |-> startTime, end_time |-> NONE, duration |-> NONE,
   price_per_minute |-> pricePerMinute, total_cost |-> NONE,
   status |-> "active", rating |-> NONE]

\* The update both end paths send: end_time, duration, total_cost, status.
CompletedSession(s, endTime, duration, totalCost) ==
  [s EXCEPT !.end_time = endTime, !.duration = duration,
            !.total_cost = totalCost, !.status = "completed"]

\* `astrologer.status !== 'approved'`
NotApproved(astrologer) == astrologer.status # "approved"

\* Faulty variant: the availability of the astrologer is not looked at.
UnavailableNever(astrologer) == FALSE

\* `!astrologer.is_available`
Unavailable(astrologer) == ~astrologer.is_available

StartsInFlight == {q \in Procs : pc[q] # "idle" /\ loc[q].op = "start"}

\* start*Session: validation of the body, load of the astrologer, the
\* approved and available checks and the choice of the price.
StartAstrologer(p, ctrl, u, a, stype) ==
  /\ pc[p] = "idle"
  /\ Accept
  /\ Len(sessions) + Cardinality(StartsInFlight) < MaxSessions
  /\ LET req == [Idle EXCEPT !.op = "start", !.ctrl = ctrl, !.user = u,
                              !.astro = a, !.stype = stype]
         fail(code) == /\ loc' = [loc EXCEPT ![p] = Responded(req, code)]
                       /\ pc' = pc
     IN  IF stype \notin ValidSessionTypes(ctrl) THEN fail("VALIDATION_ERROR")
         ELSE IF a \notin DOMAIN astrologers THEN fail("NOT_FOUND")
         ELSE IF NotApproved(astrologers[a]) THEN fail("BAD_REQUEST")
         ELSE IF Unavailable(astrologers[a]) THEN fail("BAD_REQUEST")
         ELSE /\ loc' = [loc EXCEPT ![p] =
                           [req EXCEPT !.price = PricePerMinute(ctrl, stype, a)]]
              /\ pc' = [pc EXCEPT ![p] = "s_balance"]
  /\ UNCHANGED <<now, wallet, astrologers, sessions, transactions, aux>>

\* start*Session: read of the wallet and the five-minute floor.
StartBalance(p) ==
  /\ pc[p] = "s_balance"
  /\ IF BelowMinimum(wallet[loc[p].user], MinimumRequired(loc[p].price))
       THEN /\ loc' = [loc EXCEPT ![p] =
                         Responded(loc[p], "INSUFFICIENT_BALANCE")]
            /\ pc' = [pc EXCEPT ![p] = "idle"]
       ELSE /\ loc' = loc
            /\ pc' = [pc EXCEPT ![p] = "s_existing"]
  /\ UNCHANGED <<now, wallet, astrologers, sessions, transactions, requests, aux>>

\* start*Session: look for an active session of the user.
StartExisting(p) ==
  /\ pc[p] = "s_existing"
  /\ LET existingSession == ExistingSession(loc[p].user) IN
       IF existingSession # NONE
         THEN /\ loc' = [loc EXCEPT ![p].sid = existingSession]
              /\ pc' = [pc EXCEPT ![p] = "x_load"]
         ELSE /\ loc' = loc
              /\ pc' = [pc EXCEPT ![p] = "s_insert"]
  /\ UNCHANGED <<now, wallet, astrologers, sessions, transactions, requests, aux>>

\* Faulty variant: the cost is computed with the astrologer's current price.
SessionPriceCurrent(session) ==
  IF session.session_type = "chat"
    THEN astrologers[session.astrologer_id].chat_price_per_minute
    ELSE astrologers[session.astrologer_id].call_price_per_minute

\* The price both end paths multiply the duration by: session.price_per_minute
SessionPrice(session) == session.price_per_minute

\* endExistingSession: load of the row by id, duration and cost.
AutoEndLoad(p) ==
  /\ pc[p] = "x_load"
  /\ LET session == sessions[loc[p].sid]
         elapsed == now - session.start_time
     IN  loc' = [loc EXCEPT
                   ![p].endTime = now,
                   ![p].duration = DurationMinutes(loc[p].ctrl, elapsed),
                   ![p].amount = TotalCost(loc[p].ctrl, elapsed,
                                           SessionPrice(session))]
  /\ pc' = [pc EXCEPT ![p] = "d_read"]
  /\ UNCHANGED <<now, wallet, astrologers, sessions, transactions, requests, aux>>

\* endExistingSession: chat_sessions.update(...).eq('id', sessionId)
AutoEndUpdate(p) ==
  /\ pc[p] = "x_update"
  /\ sessions' = [sessions EXCEPT ![loc[p].sid] =
        CompletedSession(@, loc[p].endTime, loc[p].duration, loc[p].amount)]
  /\ pc' = [pc EXCEPT ![p] = "x_rpc"]
  /\ UNCHANGED <<now, wallet, astrologers, transactions, loc, requests, aux>>

\* endExistingSession when rpc('increment_astrologer_calls') returns an
\* error: the result of the call is not read.
AutoEndRpcFails(p) ==
  /\ pc[p] = "x_rpc"
  /\ pc' = [pc EXCEPT ![p] = "s_insert"]
  /\ UNCHANGED <<now, wallet, astrologers, sessions, transactions, loc, requests, aux>>

\* endExistingSession: rpc('increment_astrologer_calls')
AutoEndRpc(p) ==
  /\ pc[p] = "x_rpc"
  /\ astrologers' = [astrologers EXCEPT
        ![sessions[loc[p].sid].astrologer_id].total_calls = @ + 1]
  /\ pc' = [pc EXCEPT ![p] = "s_insert"]
  /\ UNCHANGED <<now, wallet, sessions, transactions, loc, requests, aux>>

\* start*Session: insert of the new active row and the 201 response.
StartInsert(p) ==
  /\ pc[p] = "s_insert"
  /\ sessions' = Append(sessions,
        NewSession(loc[p].user, loc[p].astro, loc[p].stype, loc[p].price, now))
  /\ loc' = [loc EXCEPT ![p] = Responded(loc[p], "CREATED")]
  /\ pc' = [pc EXCEPT ![p] = "idle"]
  /\ UNCHANGED <<now, wallet, astrologers, transactions, requests, aux>>

\* Faulty variant: the load does not filter by the calling user.
EndFilterAnyUser(ctrl, u, sid) ==
  /\ sid \in SessionIds
  /\ sessions[sid].status = "active"
  /\ ctrl = "call" => sessions[sid].session_type \in {"call", "video"}

\* The row filter of the load in endChatSession and endCallSession.
EndFilter(ctrl, u, sid) ==
  /\ sid \in SessionIds
  /\ sessions[sid].user_id = u
  /\ sessions[sid].status = "active"
  /\ ctrl = "call" => sessions[sid].session_type \in {"call", "video"}

\* end*Session: load of the active session, duration and cost.
EndLoad(p, ctrl, u, sid) ==
  /\ pc[p] = "idle"
  /\ Accept
  /\ LET req == [Idle EXCEPT !.op = "end", !.ctrl = ctrl, !.user = u,
                              !.sid = sid]
     IN  IF ~EndFilter(ctrl, u, sid)
           THEN /\ loc' = [loc EXCEPT ![p] = Responded(req, "NOT_FOUND")]
                /\ pc' = pc
           ELSE LET session == sessions[sid]
                    elapsed == now - session.start_time
                IN  /\ loc' = [loc EXCEPT ![p] = [req EXCEPT
                          !.endTime = now,
                          !.price = SessionPrice(session),
                          !.duration = DurationMinutes(ctrl, elapsed),
                          !.amount = TotalCost(ctrl, elapsed,
                                               SessionPrice(session))]]
                    /\ pc' = [pc EXCEPT ![p] = "d_read"]
  /\ UNCHANGED <<now, wallet, astrologers, sessions, transactions, aux>>

\* end*Session: chat_sessions.update(...).eq('id', sessionId)
EndUpdate(p) ==
  /\ pc[p] = "e_update"
  /\ sessions' = [sessions EXCEPT ![loc[p].sid] =
        CompletedSession(@, loc[p].endTime, loc[p].duration, loc[p].amount)]
  /\ pc' = [pc EXCEPT ![p] = "e_rpc"]
  /\ UNCHANGED <<now, wallet, astrologers, transactions, loc, requests, aux>>

\* Faulty variant: the response leaves out the id of the debit.
EndResponseNoTransaction(l) ==
  [Responded(l, "OK") EXCEPT !.sid = l.sid,
                             !.duration = sessions[l.sid].duration,
                             !.amount = sessions[l.sid].total_cost,
                             !.newBalance = l.newBalance]

\* The success response of end*Session: sessionId, duration and totalCost of
\* the updated row, remainingBalance and transactionId of the deduct result.
EndResponse(l) ==
  [Responded(l, "OK") EXCEPT !.sid = l.sid,
                             !.duration = sessions[l.sid].duration,
                             !.amount = sessions[l.sid].total_cost,
                             !.newBalance = l.newBalance,
                             !.txId = l.txId]

\* end*Session when rpc('increment_astrologer_calls') returns an error: the
\* result of the call is not read, the success response is sent.
EndRpcFails(p) ==
  /\ pc[p] = "e_rpc"
  /\ loc' = [loc EXCEPT ![p] = EndResponse(loc[p])]
  /\ pc' = [pc EXCEPT ![p] = "idle"]
  /\ UNCHANGED <<now, wallet, astrologers, sessions, transactions, requests, aux>>

\* end*Session: rpc('increment_astrologer_calls') and the success response.
EndRpc(p) ==
  /\ pc[p] = "e_rpc"
  /\ astrologers' = [astrologers EXCEPT
        ![sessions[loc[p].sid].astrologer_id].total_calls = @ + 1]
  /\ loc' = [loc EXCEPT ![p] = EndResponse(loc[p])]
  /\ pc' = [pc EXCEPT ![p] = "idle"]
  /\ UNCHANGED <<now, wallet, sessions, transactions, requests, aux>>

\* Faulty variant: the update does not filter by the status completed.
RateFilterAnyStatus(ctrl, u, sid) ==
  /\ sid \in SessionIds
  /\ sessions[sid].user_id = u
  /\ ctrl = "call" => sessions[sid].session_type \in {"call", "video"}

\* The row filter of the update in rateChatSession and rateCallSession.
RateFilter(ctrl, u, sid) ==
  /\ sid \in SessionIds
  /\ sessions[sid].user_id = u
  /\ sessions[sid].status = "completed"
  /\ ctrl = "call" => sessions[sid].session_type \in {"call", "video"}

\* rate*Session: `!rating || rating < 1 || rating > 5`, then one filtered
\* update of the rating fields.
RateSession(p, ctrl, u, sid, rating) ==
  /\ pc[p] = "idle"
  /\ Accept
  /\ LET req == [Idle EXCEPT !.op = "rate", !.ctrl = ctrl, !.user = u,
                              !.sid = sid, !.amount = rating]
     IN  IF rating = 0 \/ rating < 1 \/ rating > 5
           THEN /\ loc' = [loc EXCEPT ![p] = Responded(req, "VALIDATION_ERROR")]
                /\ sessions' = sessions
         ELSE IF ~RateFilter(ctrl, u, sid)
           THEN /\ loc' = [loc EXCEPT ![p] = Responded(req, "NOT_FOUND")]
                /\ sessions' = sessions
         ELSE /\ sessions' = [sessions EXCEPT ![sid].rating = rating]
              /\ loc' = [loc EXCEPT ![p] = Responded(req, "OK")]
  /\ UNCHANGED <<now, wallet, astrologers, transactions, pc, aux>>

\* ----------------------------------------------------------------- clock
\* Time passes between two requests.
Tick(d) ==
  /\ \A p \in Procs : pc[p] = "idle"
  /\ now + d <= MaxTime
  /\ now' = now + d
  /\ UNCHANGED <<wallet, astrologers, sessions, transactions, pc, loc, requests, aux>>

\* Time passes while handlers are suspended.
TickDuring(d) ==
  /\ now + d <= ConcMaxTime
  /\ now' = now + d
  /\ UNCHANGED <<wallet, astrologers, sessions, transactions, pc, loc, requests, aux>>

\* ------------------------------------------------------ validate balance
\* validateBalance reads chat_price_per_minute, validateBalanceForCall reads
\* call_price_per_minute.
ValidatePrice(ctrl, a) ==
  IF ctrl = "chat" THEN astrologers[a].chat_price_per_minute
                   ELSE astrologers[a].call_price_per_minute

\* `currentBalance >= minimumRequired`
CanStart(currentBalance, minimumRequired) == currentBalance >= minimumRequired

\* `Math.floor(currentBalance / pricePerMinute)`
EstimatedMinutes(currentBalance, pricePerMinute) == currentBalance \div pricePerMinute

\* The data sent with the INSUFFICIENT_BALANCE error.
InsufficientResponse(currentBalance, pricePerMinute, minimumRequired) ==
  [canStart |-> FALSE, currentBalance |-> currentBalance,
   pricePerMinute |-> pricePerMinute, minimumRequired |-> minimumRequired,
   estimatedMinutes |-> NONE,
   shortfall |-> minimumRequired - currentBalance]

\* The data sent with the success response.
SufficientResponse(currentBalance, pricePerMinute, minimumRequired) ==
  [canStart |-> TRUE, currentBalance |-> currentBalance,
   pricePerMinute |-> pricePerMinute, minimumRequired |-> minimumRequired,
   estimatedMinutes |-> EstimatedMinutes(currentBalance, pricePerMinute),
   shortfall |-> NONE]

\* validateBalance / validateBalanceForCall: validation and read of the
\* astrologer's price.
ValidateAstrologer(p, ctrl, u, a) ==
  /\ pc[p] = "idle"
  /\ Accept
  /\ LET req == [Idle EXCEPT !.op = "validate", !.ctrl = ctrl, !.user = u,
                              !.astro = a]
         fail(code) == /\ loc' = [loc EXCEPT ![p] = Responded(req, code)]
                       /\ pc' = pc
     IN  IF a = NULL THEN fail("VALIDATION_ERROR")
         ELSE IF a \notin DOMAIN astrologers THEN fail("NOT_FOUND")
         ELSE /\ loc' = [loc EXCEPT ![p] =
                           [req EXCEPT !.price = ValidatePrice(ctrl, a)]]
              /\ pc' = [pc EXCEPT ![p] = "v_balance"]
  /\ response' = [response EXCEPT ![p] = NoResponse]
  /\ UNCHANGED <<now, wallet, astrologers, sessions, transactions,
                 reviews, availability, lastSweep>>

\* validateBalance / validateBalanceForCall: read of the wallet and answer.
ValidateBalance(p) ==
  /\ pc[p] = "v_balance"
  /\ LET pricePerMinute == loc[p].price
         minimumRequired == MinimumRequired(pricePerMinute)
         currentBalance == wallet[loc[p].user]
     IN  IF ~CanStart(currentBalance, minimumRequired)
           THEN /\ response' = [response EXCEPT ![p] =
                     InsufficientResponse(currentBalance, pricePerMinute,
                                          minimumRequired)]
                /\ loc' = [loc EXCEPT ![p] =
                             Responded(loc[p], "INSUFFICIENT_BALANCE")]
           ELSE /\ response' = [response EXCEPT ![p] =
                     SufficientResponse(currentBalance, pricePerMinute,
                                        minimumRequired)]
                /\ loc' = [loc EXCEPT ![p] = Responded(loc[p], "OK")]
  /\ pc' = [pc EXCEPT ![p] = "idle"]
  /\ UNCHANGED <<now, wallet, astrologers, sessions, transactions, requests,
                 reviews, availability, lastSweep>>

\* ---------------------------------------------------------------- reviews
\* astrologers.rating is held in tenths: 40 is the rating 4.0.
ReviewIds == 1..Len(reviews)

\* isValidRating
IsValidRating(rating) == rating >= 1 /\ rating <= 5

\* submitReview: chat_sessions filtered by id, user_id, astrologer_id and
\* status 'completed'
ReviewableSession(u, a, sid) ==
  /\ sid \in SessionIds
  /\ sessions[sid].user_id = u
  /\ sessions[sid].astrologer_id = a
  /\ sessions[sid].status = "completed"

\* reviews filtered by session_id
ExistingReview(sid) == \E k \in ReviewIds : reviews[k].session_id = sid

\* Faulty variant: the table has no UNIQUE(session_id).
SessionIdTakenNever(sid) == FALSE

\* UNIQUE(session_id) of the reviews table, as the insert meets it
SessionIdTaken(sid) == \E k \in ReviewIds : reviews[k].session_id = sid

\* The row submitReview inserts.
NewReview(u, a, sid, rating) ==
  [user_id |-> u, astrologer_id |-> a, session_id |-> sid,
   rating |-> rating, status |-> "approved"]

\* updateAstrologerRating: reviews of the astrologer with status 'approved'
ApprovedReviews(a) ==
  {k \in ReviewIds : reviews[k].astrologer_id = a /\ reviews[k].status = "approved"}

RECURSIVE TotalRating(_)
\* `reviews.reduce((sum, r) => sum + r.rating, 0)`
TotalRating(ks) ==
  IF ks = {} THEN 0
  ELSE LET k == CHOOSE x \in ks : TRUE
       IN  reviews[k].rating + TotalRating(ks \ {k})

\* `Number((totalRating / reviews.length).toFixed(1))`, in tenths
AvgRating(ks) == RoundDiv(10 * TotalRating(ks), Cardinality(ks))

ValidStatuses == {"pending", "approved", "rejected"}

\* submitReview: validation and the read of the completed session.
SubmitSession(p, u, a, sid, rating) ==
  /\ pc[p] = "idle"
  /\ LET req == [Idle EXCEPT !.op = "review", !.user = u, !.astro = a,
                              !.sid = sid, !.rating = rating]
     IN  IF rating = 0 \/ sid = NONE
           THEN /\ loc' = [loc EXCEPT ![p] = Responded(req, "VALIDATION_ERROR")]
                /\ pc' = pc
         ELSE IF ~IsValidRating(rating)
           THEN /\ loc' = [loc EXCEPT ![p] = Responded(req, "VALIDATION_ERROR")]
                /\ pc' = pc
         ELSE IF ~ReviewableSession(u, a, sid)
           THEN /\ loc' = [loc EXCEPT ![p] = Responded(req, "FORBIDDEN")]
                /\ pc' = pc
         ELSE /\ loc' = [loc EXCEPT ![p] = req]
              /\ pc' = [pc EXCEPT ![p] = "rv_existing"]
  /\ UNCHANGED <<now, wallet, astrologers, sessions, transactions, requests, aux>>

\* submitReview: look for a review of the session.
SubmitExisting(p) ==
  /\ pc[p] = "rv_existing"
  /\ IF ExistingReview(loc[p].sid)
       THEN /\ loc' = [loc EXCEPT ![p] = Responded(loc[p], "CONFLICT")]
            /\ pc' = [pc EXCEPT ![p] = "idle"]
       ELSE /\ loc' = loc
            /\ pc' = [pc EXCEPT ![p] = "rv_insert"]
  /\ UNCHANGED <<now, wallet, astrologers, sessions, transactions, requests, aux>>

\* submitReview: reviews.insert(...).  The read of the user's name before it
\* touches nothing the model holds.
SubmitInsert(p) ==
  /\ pc[p] = "rv_insert"
  /\ IF SessionIdTaken(loc[p].sid)
       THEN /\ reviews' = reviews
            /\ loc' = [loc EXCEPT ![p] = Responded(loc[p], "SERVER_ERROR")]
            /\ pc' = [pc EXCEPT ![p] = "idle"]
       ELSE /\ reviews' = Append(reviews, NewReview(loc[p].user, loc[p].astro,
                                                    loc[p].sid, loc[p].rating))
            /\ loc' = loc
            /\ pc' = [pc EXCEPT ![p] = "rv_rating"]
  /\ UNCHANGED <<now, wallet, astrologers, sessions, transactions, requests,
                 response, availability, lastSweep>>

\* moderateReview: validation and reviews.update({status}).eq('id', id)
ModerateUpdate(p, rid, status) ==
  /\ pc[p] = "idle"
  /\ LET req == [Idle EXCEPT !.op = "moderate", !.rid = rid]
     IN  IF status \notin ValidStatuses
           THEN /\ loc' = [loc EXCEPT ![p] = Responded(req, "VALIDATION_ERROR")]
                /\ pc' = pc
                /\ reviews' = reviews
         ELSE IF rid \notin ReviewIds
           THEN /\ loc' = [loc EXCEPT ![p] = Responded(req, "NOT_FOUND")]
                /\ pc' = pc
                /\ reviews' = reviews
         ELSE /\ reviews' = [reviews EXCEPT ![rid].status = status]
              /\ loc' = [loc EXCEPT ![p] =
                           [req EXCEPT !.astro = reviews[rid].astrologer_id]]
              /\ pc' = [pc EXCEPT ![p] = "rv_rating"]
  /\ UNCHANGED <<now, wallet, astrologers, sessions, transactions, requests,
                 response, availability, lastSweep>>

\* updateAstrologerRating: the select of the approved ratings; with none the
\* helper returns and the caller answers.
RatingRead(p) ==
  /\ pc[p] = "rv_rating"
  /\ LET approved == ApprovedReviews(loc[p].astro) IN
       IF approved = {}
         THEN /\ loc' = [loc EXCEPT ![p] = Responded(loc[p], "OK")]
              /\ pc' = [pc EXCEPT ![p] = "idle"]
         ELSE /\ loc' = [loc EXCEPT ![p].avgRating = AvgRating(approved),
                                    ![p].totalReviews = Cardinality(approved)]
              /\ pc' = [pc EXCEPT ![p] = "rv_update"]
  /\ UNCHANGED <<now, wallet, astrologers, sessions, transactions, requests, aux>>

\* updateAstrologerRating: astrologers.update({rating, total_reviews}), then
\* the caller answers.
RatingUpdate(p) ==
  /\ pc[p] = "rv_update"
  /\ astrologers' = [astrologers EXCEPT
                       ![loc[p].astro].rating = loc[p].avgRating,
                       ![loc[p].astro].total_reviews = loc[p].totalReviews]
  /\ loc' = [loc EXCEPT ![p] = Responded(loc[p], "OK")]
  /\ pc' = [pc EXCEPT ![p] = "idle"]
  /\ UNCHANGED <<now, wallet, sessions, transactions, requests, aux>>

\* ----------------------------------------------------------- availability
\* Faulty variant: the job looks back one minute only.
TwoMinutesAgoOneMinute(t) == t - TicksPerMinute

\* `new Date(Date.now() - 2 * 60 * 1000)`
TwoMinutesAgo(t) == t - 2 * TicksPerMinute

\* The rows the update of the job matches: last_activity_at before the
\* threshold (never so when it is null) and one of the two flags set.
Inactive(a, twoMinutesAgo) ==
  /\ availability[a].last_activity_at # NONE
  /\ availability[a].last_activity_at < twoMinutesAgo
  /\ (availability[a].chat_available \/ availability[a].call_available)

\* cron '* * * * *': the job is due at every full minute.
SweepDue == now % TicksPerMinute = 0 /\ lastSweep # now

\* toggleChatAvailability / toggleCallAvailability (kind "chat" / "call")
ToggleAvailability(p, kind, caller, id, flag) ==
  /\ pc[p] = "idle"
  /\ LET req == [Idle EXCEPT !.op = "toggle", !.ctrl = kind, !.user = caller,
                              !.astro = id]
     IN  IF flag \notin {"true", "false"}
           THEN /\ loc' = [loc EXCEPT ![p] = Responded(req, "VALIDATION_ERROR")]
                /\ availability' = availability
         ELSE IF caller # id /\ caller # "admin"
           THEN /\ loc' = [loc EXCEPT ![p] = Responded(req, "FORBIDDEN")]
                /\ availability' = availability
         ELSE IF id \notin DOMAIN availability
           THEN /\ loc' = [loc EXCEPT ![p] = Responded(req, "NOT_FOUND")]
                /\ availability' = availability
         ELSE /\ availability' =
                   IF kind = "chat"
                     THEN [availability EXCEPT ![id].chat_available = (flag = "true"),
                                               ![id].last_activity_at = now]
                     ELSE [availability EXCEPT ![id].call_available = (flag = "true"),
                                               ![id].last_activity_at = now]
              /\ loc' = [loc EXCEPT ![p] = Responded(req, "OK")]
  /\ UNCHANGED <<now, wallet, astrologers, sessions, transactions, pc, requests,
                 response, reviews, lastSweep>>

\* updateHeartbeat: an update that matches no row is no error.
UpdateHeartbeat(p, caller, id) ==
  /\ pc[p] = "idle"
  /\ LET req == [Idle EXCEPT !.op = "heartbeat", !.user = caller, !.astro = id]
     IN  IF caller # id
           THEN /\ loc' = [loc EXCEPT ![p] = Responded(req, "FORBIDDEN")]
                /\ availability' = availability
           ELSE /\ availability' =
                     [a \in DOMAIN availability |->
                        IF a = id
                          THEN [availability[a] EXCEPT !.last_activity_at = now]
                          ELSE availability[a]]
                /\ loc' = [loc EXCEPT ![p] = Responded(req, "OK")]
  /\ UNCHANGED <<now, wallet, astrologers, sessions, transactions, pc, requests,
                 response, reviews, lastSweep>>

\* The job of cron.schedule: one update over all matching rows.
Sweep ==
  /\ SweepDue
  /\ availability' =
       [a \in DOMAIN availability |->
          IF Inactive(a, TwoMinutesAgo(now))
            THEN [availability[a] EXCEPT !.chat_available = FALSE,
                                         !.call_available = FALSE]
            ELSE availability[a]]
  /\ lastSweep' = now
  /\ UNCHANGED <<now, wallet, astrologers, sessions, transactions, pc, loc,
                 requests, response, reviews>>

\* Ten seconds pass; the job due at a full minute runs before the next ten
\* seconds are over.
TickSweep ==
  /\ ~SweepDue
  /\ Tick(1)

\* ------------------------------------------------------- specifications
\* Requests are served one at a time: one slot, and time passes between
\* requests.
Next ==
  \/ \E u \in Payers, amount \in RechargeAmounts :
        RechargeRead("p1", u, amount)
  \/ \E ctrl \in Controllers, u \in Users, a \in AstrologerInputs,
        stype \in SessionTypes : StartAstrologer("p1", ctrl, u, a, stype)
  \/ \E ctrl \in Controllers, u \in Users, sid \in 1..MaxSessions :
        EndLoad("p1", ctrl, u, sid)
  \/ \E ctrl \in Controllers, u \in Users, sid \in 1..MaxSessions,
        rating \in Ratings : RateSession("p1", ctrl, u, sid, rating)
  \/ RechargeUpdate("p1")
  \/ RechargeInsert("p1")
  \/ DeductRead("p1")
  \/ DeductUpdate("p1")
  \/ DeductInsert("p1")
  \/ StartBalance("p1")
  \/ StartExisting("p1")
  \/ AutoEndLoad("p1")
  \/ AutoEndUpdate("p1")
  \/ AutoEndRpc("p1")
  \/ StartInsert("p1")
  \/ EndUpdate("p1")
  \/ EndRpc("p1")
  \/ \E d \in TimeSteps : Tick(d)

Spec == Init /\ [][Next]_vars

\* Requests of one user interleave at every datastore call, and time passes
\* at any point.
NextConc ==
  \/ \E p \in Procs, u \in ConcUsers, amount \in ConcAmounts :
        RechargeRead(p, u, amount)
  \/ \E p \in Procs, ctrl \in Controllers, u \in ConcUsers,
        a \in ConcAstrologers, stype \in ConcSessionTypes :
        StartAstrologer(p, ctrl, u, a, stype)
  \/ \E p \in Procs, ctrl \in Controllers, u \in ConcUsers,
        sid \in 1..MaxSessions : EndLoad(p, ctrl, u, sid)
  \/ \E p \in Procs, ctrl \in Controllers, u \in ConcUsers,
        sid \in 1..MaxSessions, rating \in ConcRatings :
        RateSession(p, ctrl, u, sid, rating)
  \/ \E p \in Procs : RechargeUpdate(p)
  \/ \E p \in Procs : RechargeInsert(p)
  \/ \E p \in Procs : DeductRead(p)
  \/ \E p \in Procs : DeductUpdate(p)
  \/ \E p \in Procs : DeductInsert(p)
  \/ \E p \in Procs : StartBalance(p)
  \/ \E p \in Procs : StartExisting(p)
  \/ \E p \in Procs : AutoEndLoad(p)
  \/ \E p \in Procs : AutoEndUpdate(p)
  \/ \E p \in Procs : AutoEndRpc(p)
  \/ \E p \in Procs : StartInsert(p)
  \/ \E p \in Procs : EndUpdate(p)
  \/ \E p \in Procs : EndRpc(p)
  \/ \E d \in ConcTimeSteps : TickDuring(d)

SpecConc == Init /\ [][NextConc]_vars

\* Requests served one at a time, with every user, astrologer and controller
\* and few amounts and times: the checks each handler makes on its request.
NextGate ==
  \/ \E u \in Payers, amount \in GateAmounts :
        RechargeRead("p1", u, amount)
  \/ \E ctrl \in Controllers, u \in Users, a \in AstrologerInputs,
        stype \in SessionTypes : StartAstrologer("p1", ctrl, u, a, stype)
  \/ \E ctrl \in Controllers, u \in Users, sid \in 1..MaxSessions :
        EndLoad("p1", ctrl, u, sid)
  \/ \E ctrl \in Controllers, u \in Users, sid \in 1..MaxSessions,
        rating \in GateRatings : RateSession("p1", ctrl, u, sid, rating)
  \/ RechargeUpdate("p1")
  \/ RechargeInsert("p1")
  \/ DeductRead("p1")
  \/ DeductUpdate("p1")
  \/ DeductInsert("p1")
  \/ StartBalance("p1")
  \/ StartExisting("p1")
  \/ AutoEndLoad("p1")
  \/ AutoEndUpdate("p1")
  \/ AutoEndRpc("p1")
  \/ StartInsert("p1")
  \/ EndUpdate("p1")
  \/ EndRpc("p1")
  \/ \E d \in GateTimeSteps : Tick(d)

SpecGate == Init /\ [][NextGate]_vars

\* The astrologer's per-minute prices are changed in the datastore.
ChangePrice(a, chat, call) ==
  /\ astrologers' = [astrologers EXCEPT ![a].chat_price_per_minute = chat,
                                        ![a].call_price_per_minute = call]
  /\ astrologers' # astrologers
  /\ UNCHANGED <<now, wallet, sessions, transactions, pc, loc, requests, aux>>

\* Requests served one at a time, with the prices of the astrologer changed
\* at any point.
NextPrice ==
  \/ \E u \in PriceUsers, amount \in PriceAmounts :
        RechargeRead("p1", u, amount)
  \/ \E ctrl \in Controllers, u \in PriceUsers, a \in PriceAstrologers,
        stype \in PriceSessionTypes : StartAstrologer("p1", ctrl, u, a, stype)
  \/ \E ctrl \in Controllers, u \in PriceUsers, sid \in 1..MaxSessions :
        EndLoad("p1", ctrl, u, sid)
  \/ RechargeUpdate("p1")
  \/ RechargeInsert("p1")
  \/ DeductRead("p1")
  \/ DeductUpdate("p1")
  \/ DeductInsert("p1")
  \/ StartBalance("p1")
  \/ StartExisting("p1")
  \/ AutoEndLoad("p1")
  \/ AutoEndUpdate("p1")
  \/ AutoEndRpc("p1")
  \/ StartInsert("p1")
  \/ EndUpdate("p1")
  \/ EndRpc("p1")
  \/ \E d \in PriceTimeSteps : Tick(d)
  \/ \E a \in PriceAstrologers, chat \in PriceInputs, call \in PriceInputs :
        ChangePrice(a, chat, call)

SpecPrice == Init /\ [][NextPrice]_vars

\* Requests served one at a time, with the balance pre-check among them.
NextValidate ==
  \/ \E u \in ValidateUsers, amount \in ValidateAmounts :
        RechargeRead("p1", u, amount)
  \/ \E ctrl \in Controllers, u \in ValidateUsers, a \in ValidateInputs :
        ValidateAstrologer("p1", ctrl, u, a)
  \/ \E ctrl \in Controllers, u \in ValidateUsers, a \in ValidateAstrologers,
        stype \in ValidateSessionTypes : StartAstrologer("p1", ctrl, u, a, stype)
  \/ \E ctrl \in Controllers, u \in ValidateUsers, sid \in 1..MaxSessions :
        EndLoad("p1", ctrl, u, sid)
  \/ ValidateBalance("p1")
  \/ RechargeUpdate("p1")
  \/ RechargeInsert("p1")
  \/ DeductRead("p1")
  \/ DeductUpdate("p1")
  \/ DeductInsert("p1")
  \/ StartBalance("p1")
  \/ StartExisting("p1")
  \/ AutoEndLoad("p1")
  \/ AutoEndUpdate("p1")
  \/ AutoEndRpc("p1")
  \/ StartInsert("p1")
  \/ EndUpdate("p1")
  \/ EndRpc("p1")
  \/ \E d \in ValidateTimeSteps : Tick(d)

SpecValidate == Init /\ [][NextValidate]_vars

\* Requests served one at a time: sessions are paid for and ended, reviewed,
\* and the reviews moderated.
NextReview ==
  \/ \E u \in ReviewPayers, amount \in ReviewAmounts :
        RechargeRead("p1", u, amount)
  \/ \E u \in ReviewPayers, a \in ReviewAstrologers, stype \in ReviewSessionTypes :
        StartAstrologer("p1", "call", u, a, stype)
  \/ \E u \in ReviewPayers, sid \in 1..MaxSessions : EndLoad("p1", "call", u, sid)
  \/ \E u \in ReviewUsers, a \in ReviewAstrologerInputs, sid \in 1..MaxSessions,
        rating \in ReviewRatings : SubmitSession("p1", u, a, sid, rating)
  \/ \E rid \in 1..MaxSessions, status \in ReviewStatuses :
        ModerateUpdate("p1", rid, status)
  \/ RechargeUpdate("p1")
  \/ RechargeInsert("p1")
  \/ DeductRead("p1")
  \/ DeductUpdate("p1")
  \/ DeductInsert("p1")
  \/ StartBalance("p1")
  \/ StartExisting("p1")
  \/ AutoEndLoad("p1")
  \/ AutoEndUpdate("p1")
  \/ AutoEndRpc("p1")
  \/ StartInsert("p1")
  \/ EndUpdate("p1")
  \/ EndRpc("p1")
  \/ SubmitExisting("p1")
  \/ SubmitInsert("p1")
  \/ RatingRead("p1")
  \/ RatingUpdate("p1")
  \/ \E d \in ReviewTimeSteps : Tick(d)

SpecReview == Init /\ [][NextReview]_vars

\* Review submissions interleave at every datastore call, with each other
\* and with the session requests of the first slot.
NextReviewConc ==
  \/ \E u \in ReviewConcUsers, amount \in ReviewAmounts :
        RechargeRead("p1", u, amount)
  \/ \E u \in ReviewConcUsers, a \in ReviewAstrologers, stype \in ReviewSessionTypes :
        StartAstrologer("p1", "call", u, a, stype)
  \/ \E u \in ReviewConcUsers, sid \in 1..MaxSessions : EndLoad("p1", "call", u, sid)
  \/ \E p \in Procs, u \in ReviewConcUsers, a \in ReviewAstrologers,
        sid \in 1..MaxSessions, rating \in ReviewConcRatings :
        SubmitSession(p, u, a, sid, rating)
  \/ RechargeUpdate("p1")
  \/ RechargeInsert("p1")
  \/ DeductRead("p1")
  \/ DeductUpdate("p1")
  \/ DeductInsert("p1")
  \/ StartBalance("p1")
  \/ StartExisting("p1")
  \/ AutoEndLoad("p1")
  \/ AutoEndUpdate("p1")
  \/ AutoEndRpc("p1")
  \/ StartInsert("p1")
  \/ EndUpdate("p1")
  \/ EndRpc("p1")
  \/ \E p \in Procs : SubmitExisting(p)
  \/ \E p \in Procs : SubmitInsert(p)
  \/ \E p \in Procs : RatingRead(p)
  \/ \E p \in Procs : RatingUpdate(p)
  \/ \E d \in ReviewConcTimeSteps : Tick(d)

SpecReviewConc == Init /\ [][NextReviewConc]_vars

\* Astrologers switch their availability and send heartbeats while the clock
\* runs and the job fires at every full minute.
NextSweep ==
  \/ \E kind \in Controllers, caller \in SweepCallers, id \in SweepInputs,
        flag \in SweepFlags : ToggleAvailability("p1", kind, caller, id, flag)
  \/ \E caller \in SweepCallers, id \in SweepInputs :
        UpdateHeartbeat("p1", caller, id)
  \/ Sweep
  \/ TickSweep

\* The clock runs, and node-cron fires the job while the process is up.
SpecSweep ==
  Init /\ [][NextSweep]_vars /\ WF_vars(Sweep) /\ WF_vars(TickSweep)

\* Recharges and ends of one user interleave at every datastore call; time
\* passes between requests.
NextRace ==
  \/ \E p \in Procs, u \in RaceUsers, amount \in RaceAmounts :
        RechargeRead(p, u, amount)
  \/ \E u \in RaceUsers, a \in RaceAstrologers, stype \in RaceSessionTypes :
        StartAstrologer("p1", "call", u, a, stype)
  \/ \E p \in Procs, u \in RaceUsers, sid \in 1..MaxSessions :
        EndLoad(p, "call", u, sid)
  \/ \E p \in Procs : RechargeUpdate(p)
  \/ \E p \in Procs : RechargeInsert(p)
  \/ \E p \in Procs : DeductRead(p)
  \/ \E p \in Procs : DeductUpdate(p)
  \/ \E p \in Procs : DeductInsert(p)
  \/ StartBalance("p1")
  \/ StartExisting("p1")
  \/ AutoEndLoad("p1")
  \/ AutoEndUpdate("p1")
  \/ AutoEndRpc("p1")
  \/ StartInsert("p1")
  \/ \E p \in Procs : EndUpdate(p)
  \/ \E p \in Procs : EndRpc(p)
  \/ \E d \in RaceTimeSteps : Tick(d)

SpecRace == Init /\ [][NextRace]_vars

\* One request at a time, where the insert of the recharge transaction, the
\* update of the balance and the rpc of the call counter may return an error.
FaultUsers == {"u1", "u9"}
FaultAstrologers == {"a1"}
FaultSessionTypes == {"chat"}
FaultAmounts == {5000}
FaultTimeSteps == {9}

NextFault ==
  \/ \E u \in FaultUsers, amount \in FaultAmounts :
        RechargeRead("p1", u, amount)
  \/ \E ctrl \in Controllers, u \in FaultUsers \cap Users,
        a \in FaultAstrologers, stype \in FaultSessionTypes :
        StartAstrologer("p1", ctrl, u, a, stype)
  \/ \E ctrl \in Controllers, u \in FaultUsers \cap Users,
        sid \in 1..MaxSessions : EndLoad("p1", ctrl, u, sid)
  \/ RechargeUpdate("p1")
  \/ RechargeUpdateFails("p1")
  \/ RechargeInsert("p1")
  \/ RechargeInsertFails("p1")
  \/ DeductRead("p1")
  \/ DeductUpdate("p1")
  \/ DeductInsert("p1")
  \/ StartBalance("p1")
  \/ StartExisting("p1")
  \/ AutoEndLoad("p1")
  \/ AutoEndUpdate("p1")
  \/ AutoEndRpc("p1")
  \/ AutoEndRpcFails("p1")
  \/ StartInsert("p1")
  \/ EndUpdate("p1")
  \/ EndRpc("p1")
  \/ EndRpcFails("p1")
  \/ \E d \in FaultTimeSteps : Tick(d)

SpecFault == Init /\ [][NextFault]_vars

\* An astrologer switches availability on and then sends no heartbeat; the
\* job runs at every full minute; a user recharges and starts sessions.
\* Availability is only ever switched on here, so a flag that is off again
\* was set off by the job.
OfflineUsers == {"u1"}
OfflineAstrologers == {"a1"}
OfflineCallers == {"a1"}
OfflineFlags == {"true"}
OfflineSessionTypes == {"chat"}
OfflineAmounts == {5000}
OfflineMaxTime == 19

\* Ten seconds pass, up to the end of the observed time.
OfflineTick ==
  /\ now < OfflineMaxTime
  /\ TickSweep

NextOffline ==
  \/ \E kind \in Controllers, caller \in OfflineCallers, flag \in OfflineFlags :
        ToggleAvailability("p1", kind, caller, caller, flag)
  \/ Sweep
  \/ OfflineTick
  \/ \E u \in OfflineUsers, amount \in OfflineAmounts :
        RechargeRead("p1", u, amount)
  \/ \E ctrl \in Controllers, u \in OfflineUsers, a \in OfflineAstrologers,
        stype \in OfflineSessionTypes : StartAstrologer("p1", ctrl, u, a, stype)
  \/ RechargeUpdate("p1")
  \/ RechargeInsert("p1")
  \/ DeductRead("p1")
  \/ DeductUpdate("p1")
  \/ DeductInsert("p1")
  \/ StartBalance("p1")
  \/ StartExisting("p1")
  \/ AutoEndLoad("p1")
  \/ AutoEndUpdate("p1")
  \/ AutoEndRpc("p1")
  \/ StartInsert("p1")

SpecOffline == Init /\ [][NextOffline]_vars

\* ----------------------------------------------------------- properties
DebitsOf(sid) ==
  {k \in 1..Len(transactions) :
     transactions[k].type = "debit" /\ transactions[k].session_id = sid}

\* C1: with requests served one at a time, no user ever has more than one
\* session with status active, whichever controller started them.
C1_SingleActiveSession ==
  \A u \in Users : Cardinality(ActiveSessionsOf(u)) <= 1

\* A start has auto-ended a session of the user and created the next one.
C1_Witness ==
  \E i, j \in SessionIds :
    /\ sessions[i].user_id = sessions[j].user_id
    /\ sessions[i].status = "completed"
    /\ sessions[j].status = "active"
    /\ sessions[j].start_time = sessions[i].end_time
    /\ \E k \in DebitsOf(i) :
         transactions[k].description = "session ended automatically"

C3_NoPartialDebit ==
  [][\A p \in Procs :
       (DeductRead(p) /\ loc[p].amount > wallet[loc[p].user]) =>
         /\ wallet' = wallet
         /\ transactions' = transactions
         /\ pc'[p] \notin {"d_update", "d_insert"}
         /\ IF loc[p].op = "end"
              THEN pc'[p] = "idle" /\ loc'[p].code = "INSUFFICIENT_BALANCE"
              ELSE loc'[p].deduct = "Insufficient balance"]_vars

\* A debit was refused: by an explicit end, or inside an auto-end.
C3_Witness ==
  \E p \in Procs :
    \/ pc[p] = "idle" /\ loc[p].op = "end" /\ loc[p].code = "INSUFFICIENT_BALANCE"
    \/ pc[p] = "x_update" /\ loc[p].deduct = "Insufficient balance"

\* C4: under every interleaving of recharge, start and end requests (and
\* the debits they make) no stored balance is negative.
C4_NonNegativeWallet == \A u \in Users : wallet[u] >= 0

\* An end was refused for insufficient balance while the wallet had been
\* recharged, the case in which the check keeps the balance from going below 0.
C4_Witness ==
  /\ \E p \in Procs : loc[p].op = "end" /\ loc[p].code = "INSUFFICIENT_BALANCE"
  /\ \E u \in Users : wallet[u] > 0

C6_ExactBilling ==
  \A p \in Procs :
    pc[p] = "e_rpc" =>
      LET s == sessions[loc[p].sid]
          elapsed == s.end_time - s.start_time
      IN  /\ s.duration = elapsed
          /\ s.total_cost = RoundDiv(elapsed * s.price_per_minute, TicksPerMinute)

\* C7: past the astrologer checks, a start whose user holds less than five
\* minutes at the applicable price (the chat price for the type chat, the
\* call price for call and video) is answered InsufficientBalance and
\* inserts no session; with five minutes or more, exactly five included, it
\* goes on and can only end by inserting the active session (201).
C7_FiveMinuteFloor ==
  [][\A p \in Procs :
       /\ StartBalance(p) =>
            /\ loc[p].price =
                 IF loc[p].stype = "chat"
                   THEN astrologers[loc[p].astro].chat_price_per_minute
                   ELSE astrologers[loc[p].astro].call_price_per_minute
            /\ IF wallet[loc[p].user] < MinimumMinutes * loc[p].price
                 THEN /\ pc'[p] = "idle"
                      /\ loc'[p].code = "INSUFFICIENT_BALANCE"
                      /\ sessions' = sessions
                 ELSE pc'[p] = "s_existing"
       /\ (loc[p].op = "start" /\ pc[p] \notin {"idle", "s_balance"}
            /\ pc'[p] = "idle") =>
            /\ loc'[p].code = "CREATED"
            /\ Len(sessions') = Len(sessions) + 1
            /\ sessions'[Len(sessions')].status = "active"
            /\ sessions'[Len(sessions')].user_id = loc[p].user
            /\ sessions'[Len(sessions')].price_per_minute = loc[p].price]_vars

\* A session was created on a balance of exactly five minutes, and a start
\* was then refused for insufficient balance.
C7_Witness ==
  /\ \E i \in SessionIds :
       /\ sessions[i].status = "active"
       /\ sessions[i].start_time = now
       /\ wallet[sessions[i].user_id] = MinimumMinutes * sessions[i].price_per_minute
  /\ \E p \in Procs :
       loc[p].op = "start" /\ loc[p].code = "INSUFFICIENT_BALANCE"

\* C8: when a start that found an active session S reaches the insert of
\* the new row, S is completed and its cost is settled: a debit row
\* "ended automatically" of -totalCost exists for S.
C8_AutoEndSettles ==
  \A p \in Procs :
    (pc[p] = "s_insert" /\ loc[p].sid # NONE) =>
      /\ sessions[loc[p].sid].status = "completed"
      /\ \E k \in DebitsOf(loc[p].sid) :
           /\ transactions[k].description = "session ended automatically"
           /\ transactions[k].amount = 0 - sessions[loc[p].sid].total_cost

\* C9: when the debit of an explicit end is refused, the request is answered
\* InsufficientBalance and the step leaves the session active with its end
\* fields unset, the balance and the transactions as they were; the session
\* still passes the filter of a later end.
C9_UnsettledStaysActive ==
  [][\A p \in Procs :
       (DeductRead(p) /\ loc[p].op = "end"
        /\ wallet[loc[p].user] < loc[p].amount) =>
         /\ pc'[p] = "idle"
         /\ loc'[p].code = "INSUFFICIENT_BALANCE"
         /\ wallet' = wallet
         /\ transactions' = transactions
         /\ Len(sessions') = Len(sessions)
         /\ LET after == sessions'[loc[p].sid]
            IN  /\ after.status = "active"
                /\ after.end_time = NONE
                /\ after.duration = NONE
                /\ after.total_cost = NONE
                /\ after.user_id = loc[p].user
                /\ loc[p].ctrl = "call" =>
                     after.session_type \in {"call", "video"}]_vars

\* An end was refused for insufficient balance and its session is active.
C9_Witness ==
  /\ \E p \in Procs :
       pc[p] = "idle" /\ loc[p].op = "end" /\ loc[p].code = "INSUFFICIENT_BALANCE"
  /\ \E i \in SessionIds :
       /\ sessions[i].status = "active"
       /\ TotalCost("call", now - sessions[i].start_time,
                    sessions[i].price_per_minute) > wallet[sessions[i].user_id]

\* C10: rows are inserted active, a status changes only from active to
\* completed, and no step changes the status, end time, duration, cost or
\* price of a completed row.
C10_Lifecycle ==
  [][/\ \A i \in SessionIds :
          /\ sessions[i].status # sessions'[i].status =>
               sessions[i].status = "active" /\ sessions'[i].status = "completed"
          /\ sessions[i].status = "completed" =>
               /\ sessions'[i].end_time = sessions[i].end_time
               /\ sessions'[i].duration = sessions[i].duration
               /\ sessions'[i].total_cost = sessions[i].total_cost
               /\ sessions'[i].price_per_minute = sessions[i].price_per_minute
     /\ \A i \in (1..Len(sessions')) \ SessionIds :
          sessions'[i].status = "active"]_vars

\* C11: an end whose id, calling user and status active match no session
\* (unknown id, another user's session, a completed session) is answered
\* NotFound at once; the step changes no balance, transaction, session or
\* astrologer counter and the handler does nothing more.
C11_EndNotFound ==
  [][\A p \in Procs :
       (pc[p] = "idle" /\ loc'[p].op = "end") =>
         \A ctrl \in Controllers, u \in Users, sid \in 1..MaxSessions :
           (/\ EndLoad(p, ctrl, u, sid)
            /\ ~(/\ sid \in SessionIds
                 /\ sessions[sid].user_id = u
                 /\ sessions[sid].status = "active")) =>
             /\ pc'[p] = "idle"
             /\ loc'[p].code = "NOT_FOUND"
             /\ wallet' = wallet
             /\ transactions' = transactions
             /\ sessions' = sessions
             /\ astrologers' = astrologers]_vars

\* An end was answered NotFound while one session was completed and another
\* one was active.
C11_Witness ==
  /\ \E p \in Procs : loc[p].op = "end" /\ loc[p].code = "NOT_FOUND"
  /\ \E i, j \in SessionIds :
       sessions[i].status = "completed" /\ sessions[j].status = "active"

\* C12: the price stored on the row at the insert is the price chosen by the
\* start, no step changes the price of an existing row (a change of the
\* astrologer's prices included), and the amount an end debits and records
\* is the cost computed with the price stored on the row.
C12_PriceSnapshot ==
  [][/\ \A i \in SessionIds :
          sessions'[i].price_per_minute = sessions[i].price_per_minute
     /\ \A p \in Procs :
          /\ StartInsert(p) =>
               sessions'[Len(sessions')].price_per_minute = loc[p].price
          /\ DeductUpdate(p) =>
               wallet'[loc[p].user] = wallet[loc[p].user] -
                 TotalCost(loc[p].ctrl,
                           loc[p].endTime - sessions[loc[p].sid].start_time,
                           sessions[loc[p].sid].price_per_minute)
          /\ DeductInsert(p) =>
               transactions'[Len(transactions')].amount =
                 0 - TotalCost(loc[p].ctrl,
                               loc[p].endTime - sessions[loc[p].sid].start_time,
                               sessions[loc[p].sid].price_per_minute)]_vars

\* A session was debited a positive cost at its stored price while the
\* astrologer's price for its type had been changed since the start.
C12_Witness ==
  \E i \in SessionIds :
    /\ sessions[i].price_per_minute # SessionPriceCurrent(sessions[i])
    /\ \E k \in DebitsOf(i) : transactions[k].amount < 0

\* C13: a start with a valid session type is answered NotFound when the
\* astrologer does not exist and BadRequest when the astrologer is not
\* approved or not available; the handler then returns, so no session is
\* inserted, an active session of the user is not ended and no balance or
\* transaction changes.
C13_AstrologerGate ==
  [][\A p \in Procs :
       (pc[p] = "idle" /\ loc'[p].op = "start") =>
         \A ctrl \in Controllers, u \in Users, a \in AstrologerInputs :
           \A stype \in ValidSessionTypes(ctrl) :
             (/\ StartAstrologer(p, ctrl, u, a, stype)
              /\ \/ a \notin DOMAIN astrologers
                 \/ astrologers[a].status # "approved"
                 \/ ~astrologers[a].is_available) =>
               /\ pc'[p] = "idle"
               /\ loc'[p].code = IF a \in DOMAIN astrologers
                                   THEN "BAD_REQUEST" ELSE "NOT_FOUND"
               /\ sessions' = sessions
               /\ wallet' = wallet
               /\ transactions' = transactions]_vars

\* A start was refused at the astrologer gate while a session was active.
C13_Witness ==
  /\ \E p \in Procs :
       loc[p].op = "start" /\ loc[p].code \in {"BAD_REQUEST", "NOT_FOUND"}
  /\ \E i \in SessionIds : sessions[i].status = "active"

\* C14: a rate request with a rating of 1 to 5 is answered NotFound and
\* changes nothing unless the session exists, belongs to the caller and is
\* completed; it succeeds only for such a session, and through the chat
\* controller always does, writing the new rating over the old one.  No
\* rate request changes a balance, a transaction or, of any session, a
\* column other than the rating.
C14_RateCompletedOnly ==
  [][\A p \in Procs :
       (pc[p] = "idle" /\ loc'[p].op = "rate") =>
         \A ctrl \in Controllers, u \in Users, sid \in 1..MaxSessions,
            rating \in 1..5 :
           RateSession(p, ctrl, u, sid, rating) =>
             LET matches == /\ sid \in SessionIds
                            /\ sessions[sid].user_id = u
                            /\ sessions[sid].status = "completed"
             IN  /\ ~matches =>
                      loc'[p].code = "NOT_FOUND" /\ sessions' = sessions
                 /\ loc'[p].code = "OK" =>
                      matches /\ sessions'[sid].rating = rating
                 /\ (matches /\ ctrl = "chat") => loc'[p].code = "OK"
                 /\ loc'[p].code \in {"OK", "NOT_FOUND"}
                 /\ wallet' = wallet
                 /\ transactions' = transactions
                 /\ Len(sessions') = Len(sessions)
                 /\ \A i \in SessionIds :
                      sessions'[i] = [sessions[i] EXCEPT
                                        !.rating = sessions'[i].rating]]_vars

\* A rate request was answered NotFound while one session was completed
\* and held the rating 3 and another one was active.
C14_Witness ==
  /\ \E p \in Procs : loc[p].op = "rate" /\ loc[p].code = "NOT_FOUND"
  /\ \E i, j \in SessionIds :
       /\ sessions[i].status = "completed" /\ sessions[i].rating = 3
       /\ sessions[j].status = "active"

\* C15: validateBalance changes no balance, session or transaction, and for
\* the balance b it reads and the price p > 0 it reports canStart = (b >= 5p),
\* minimumRequired = 5p and estimatedMinutes = floor(b / p), with
\* shortfall = 5p - b when b < 5p; its canStart answer is the outcome of the
\* balance check of start for the same balance and price.
C15_ValidateBalance ==
  [][\A p \in Procs :
       pc[p] = "v_balance" /\ pc'[p] = "idle" =>
         LET b == wallet[loc[p].user]
             price == loc[p].price
         IN  /\ wallet' = wallet /\ sessions' = sessions
             /\ transactions' = transactions
             /\ price > 0
             /\ response'[p].pricePerMinute = price
             /\ response'[p].currentBalance = b
             /\ response'[p].canStart = (b >= 5 * price)
             /\ response'[p].minimumRequired = 5 * price
             /\ response'[p].estimatedMinutes = b \div price
             /\ b < 5 * price => response'[p].shortfall = 5 * price - b
             /\ response'[p].canStart = ~BelowMinimum(b, MinimumRequired(price))]_vars

\* C16: from a balance of 100.00 and a chat price of 10.00 per minute,
\* validateBalance answers canStart with estimatedMinutes 10; once the user's
\* only session, a chat session at that price, was ended 3 minutes after its
\* start, the balance is 70.00 and the user has exactly one debit, of -30.00.
C16_Scenario ==
  /\ [][\A p \in Procs :
          (/\ pc[p] = "v_balance" /\ pc'[p] = "idle"
           /\ loc[p].ctrl = "chat" /\ loc[p].price = 1000
           /\ wallet[loc[p].user] = 10000) =>
            /\ loc'[p].code = "OK"
            /\ response'[p].canStart
            /\ response'[p].estimatedMinutes = 10]_vars
  /\ [](\A u \in Users :
          LET credited == {k \in 1..Len(transactions) :
                             transactions[k].user_id = u /\ transactions[k].type = "recharge"}
              debits == {k \in 1..Len(transactions) :
                           transactions[k].user_id = u /\ transactions[k].type = "debit"}
          IN  (/\ \A p \in Procs : pc[p] = "idle"
               /\ Len(sessions) = 1
               /\ sessions[1].user_id = u
               /\ sessions[1].session_type = "chat"
               /\ sessions[1].price_per_minute = 1000
               /\ sessions[1].status = "completed"
               /\ sessions[1].end_time - sessions[1].start_time = 3 * TicksPerMinute
               /\ Cardinality(credited) = 2
               /\ \A k \in credited : transactions[k].amount = 5000) =>
                /\ wallet[u] = 7000
                /\ Cardinality(debits) = 1
                /\ \A k \in debits : transactions[k].amount = 0 - 3000)

\* The scenario has run: the pre-check answered 10 minutes, and the chat
\* session of 3 minutes is completed and paid.
C16_Witness ==
  /\ pc["p1"] = "idle"
  /\ response["p1"].canStart /\ response["p1"].estimatedMinutes = 10
  /\ response["p1"].currentBalance = 10000
  /\ Len(sessions) = 1
  /\ sessions[1].status = "completed" /\ sessions[1].session_type = "chat"
  /\ sessions[1].price_per_minute = 1000
  /\ sessions[1].end_time - sessions[1].start_time = 3 * TicksPerMinute
  /\ sessions[1].total_cost = 3000
  /\ wallet["u1"] = 7000
  /\ Len(transactions) = 3
  /\ transactions[3].type = "debit" /\ transactions[3].amount = 0 - 3000

\* C17: when a review submission or a review moderation has been answered
\* with success, the astrologer's rating is the mean of the astrologer's
\* approved reviews rounded to one decimal, and total_reviews is the number of
\* those reviews.
C17_RatingAggregation ==
  [][\A p \in Procs :
       (/\ pc[p] \in {"rv_rating", "rv_update"} /\ pc'[p] = "idle"
        /\ loc'[p].code = "OK") =>
         LET a == loc[p].astro
             approved == {k \in 1..Len(reviews') :
                            reviews'[k].astrologer_id = a /\ reviews'[k].status = "approved"}
         IN  /\ astrologers'[a].total_reviews = Cardinality(approved)
             /\ approved # {} =>
                  \* the rating r, in tenths, is the mean rounded to the nearest tenth
                  LET r == astrologers'[a].rating
                      total == 10 * TotalRating(approved)
                      n == Cardinality(approved)
                  IN  2 * r * n - n <= 2 * total /\ 2 * total < 2 * r * n + n]_vars

C19_AutoOffline ==
  /\ \A a \in AstrologerIds :
       (/\ availability[a].chat_available \/ availability[a].call_available
        /\ availability[a].last_activity_at # NONE
        /\ now - availability[a].last_activity_at > 2 * TicksPerMinute
        /\ now + TicksPerMinute <= MaxTime)
         ~> (\/ ~availability[a].chat_available /\ ~availability[a].call_available
             \/ now - availability[a].last_activity_at <= 2 * TicksPerMinute)
  /\ [][lastSweep' # lastSweep =>
          /\ now % TicksPerMinute = 0
          /\ \A a \in AstrologerIds :
               (/\ availability[a].last_activity_at # NONE
                /\ now - availability[a].last_activity_at < 2 * TicksPerMinute) =>
                  availability'[a] = availability[a]]_vars
  /\ [](now % TicksPerMinute # 0 => lastSweep = now - (now % TicksPerMinute))

\* The job has run at this full minute and the astrologer, last active more
\* than two minutes ago and since then through one run of the job that left
\* the flags alone, is offline.
C19_Witness ==
  /\ lastSweep = now
  /\ ~availability["a1"].chat_available /\ ~availability["a1"].call_available
  /\ availability["a1"].last_activity_at # NONE
  /\ availability["a1"].last_activity_at % TicksPerMinute = 1
  /\ now - availability["a1"].last_activity_at = 3 * TicksPerMinute - 1
  /\ loc["p1"].op = "heartbeat" /\ loc["p1"].code = "OK"

RECURSIVE TotalAmount(_)
\* The sum of the amounts of the transaction rows ks.
TotalAmount(ks) ==
  IF ks = {} THEN 0
  ELSE LET k == CHOOSE x \in ks : TRUE
       IN  transactions[k].amount + TotalAmount(ks \ {k})

\* C20: a balance operation writes back the balance it read plus its own
\* amount, whatever the balance has become in between, and records exactly
\* that; so when no request is in flight the balance is the balance_after of
\* one recorded transaction, and it can differ from the initial balance plus
\* the sum of the recorded amounts, which happens only when two recorded
\* operations started from the same balance.
C20_LostUpdate ==
  /\ [][\A p \in Procs :
          (pc[p] \in {"r_update", "d_update"} /\ pc'[p] # pc[p]) =>
            LET u == loc[p].user
                delta == IF pc[p] = "r_update" THEN loc[p].amount
                                               ELSE 0 - loc[p].amount
            IN  wallet'[u] = loc[p].balanceBefore + delta]_vars
  /\ [](\A k \in 1..Len(transactions) :
          transactions[k].balance_after =
            transactions[k].balance_before + transactions[k].amount)
  /\ [](\A u \in Users :
          LET rows == {k \in 1..Len(transactions) : transactions[k].user_id = u}
          IN  (\A p \in Procs : pc[p] = "idle") =>
                /\ rows = {} => wallet[u] = 0
                /\ rows # {} => \E k \in rows : wallet[u] = transactions[k].balance_after
                /\ wallet[u] # TotalAmount(rows) =>
                     \E j, k \in rows :
                       /\ j # k
                       /\ transactions[j].balance_before = transactions[k].balance_before)

\* A debit and a credit of the same user interleaved: both were answered
\* with success and both are recorded from the same starting balance, and
\* the balance holds only one of them.
C20_Witness ==
  /\ \A p \in Procs : pc[p] = "idle" /\ loc[p].code = "OK"
  /\ {loc[p].op : p \in Procs} = {"recharge", "end"}
  /\ Len(transactions) = 3
  /\ {transactions[2].type, transactions[3].type} = {"recharge", "debit"}
  /\ transactions[2].balance_before = transactions[3].balance_before
  /\ wallet["u1"] # TotalAmount({1, 2, 3})
  /\ wallet["u1"] \in {transactions[2].balance_after, transactions[3].balance_after}

\* C21: start looks for an active session of the user and inserts the new
\* row in two separate steps: the lookup sends the handler to the insert
\* when it finds no active session and to the auto-end when it finds one, the
\* insert adds an active row without looking again, and only an insert ever
\* takes a user from one active session to two.
C21_StartRace ==
  [][/\ \A p \in Procs :
          (pc[p] = "s_existing" /\ pc'[p] # "s_existing") =>
            LET active == {i \in 1..Len(sessions) :
                             sessions[i].user_id = loc[p].user /\ sessions[i].status = "active"}
            IN  /\ active = {} => pc'[p] = "s_insert"
                /\ Cardinality(active) = 1 => pc'[p] = "x_load" /\ loc'[p].sid \in active
                /\ sessions' = sessions
     /\ \A p \in Procs :
          (pc[p] = "s_insert" /\ pc'[p] # "s_insert") =>
            /\ Len(sessions') = Len(sessions) + 1
            /\ sessions'[Len(sessions')].status = "active"
            /\ sessions'[Len(sessions')].user_id = loc[p].user
            /\ loc'[p].code = "CREATED"
     /\ \A u \in Users :
          LET before == {i \in 1..Len(sessions) :
                           sessions[i].user_id = u /\ sessions[i].status = "active"}
              after == {i \in 1..Len(sessions') :
                          sessions'[i].user_id = u /\ sessions'[i].status = "active"}
          IN  (Cardinality(before) <= 1 /\ Cardinality(after) >= 2) =>
                \E p \in Procs : /\ pc[p] = "s_insert" /\ pc'[p] = "idle"
                                 /\ loc[p].user = u]_vars

\* Two starts of one user interleaved: both were answered with a new session
\* and the user has two active sessions.
C21_Witness ==
  /\ \A p \in Procs : pc[p] = "idle" /\ loc[p].op = "start" /\ loc[p].code = "CREATED"
  /\ Len(sessions) = 2
  /\ sessions[1].user_id = sessions[2].user_id
  /\ sessions[1].status = "active" /\ sessions[2].status = "active"

\* C22: at most one debit transaction carries a given session id, also when
\* two ends of the session, or an end and the auto-end of a start, interleave.
C22_NoDoubleBilling ==
  \A sid \in SessionIds : Cardinality(DebitsOf(sid)) <= 1

\* C23: every session with status completed has a debit transaction with its
\* session id whose amount is the negation of the session's total cost,
\* sessions completed by the auto-end of a start included.
C23_CompletedIsPaid ==
  \A sid \in SessionIds :
    sessions[sid].status = "completed" =>
      \E k \in DebitsOf(sid) :
        /\ transactions[k].user_id = sessions[sid].user_id
        /\ transactions[k].amount = 0 - sessions[sid].total_cost

\* C24 as stated: whenever start is about to insert the new active session,
\* the stored balance of the user is at least five minutes of that session's
\* price, also after the auto-end of a previous session.
C24_AffordableAtInsert ==
  \A p \in Procs :
    pc[p] = "s_insert" => wallet[loc[p].user] >= 5 * loc[p].price

\* C24, amended: start passes its balance check only with a stored balance of
\* at least five minutes of the session's price; with requests served one at
\* a time, the balance at the insert is that balance when no session was
\* auto-ended, and that balance less the debit of the auto-end otherwise.
C24_AffordableAtCheck ==
  /\ [][\A p \in Procs :
          (pc[p] = "s_balance" /\ pc'[p] = "s_existing") =>
            wallet[loc[p].user] >= 5 * loc[p].price]_vars
  /\ [](\A p \in Procs :
          pc[p] = "s_insert" =>
            LET settled == IF loc[p].sid # NONE /\ loc[p].deduct = "success"
                             THEN loc[p].amount ELSE 0
            IN  /\ wallet[loc[p].user] + settled >= 5 * loc[p].price
                /\ loc[p].sid = NONE => wallet[loc[p].user] >= 5 * loc[p].price)

\* A start settled the user's previous session and created the next one
\* with less than five minutes of its price left.
C24_Witness ==
  /\ \A p \in Procs : pc[p] = "idle"
  /\ \E i, j \in SessionIds :
       /\ sessions[i].user_id = sessions[j].user_id
       /\ sessions[i].status = "completed"
       /\ sessions[j].status = "active"
       /\ sessions[j].start_time = sessions[i].end_time
       /\ \E k \in DebitsOf(i) :
            /\ transactions[k].description = "session ended automatically"
            /\ transactions[k].amount < 0
       /\ wallet[sessions[j].user_id] < 5 * sessions[j].price_per_minute
       /\ wallet[sessions[j].user_id] - transactions[Len(transactions)].amount
            >= 5 * sessions[j].price_per_minute

\* C25: with requests served one at a time, whenever no request is between
\* its balance write and the insert of its transaction, the balance of every
\* user is the initial balance 0 plus the sum of the amounts of the user's
\* transactions; and always, the balance_before of a transaction is the
\* balance_after of the user's previous transaction, or 0 for the first.
C25_LedgerConservation ==
  \A u \in Users :
    LET rows == {k \in 1..Len(transactions) : transactions[k].user_id = u}
    IN  /\ (\A p \in Procs : pc[p] \notin {"r_insert", "d_insert"}) =>
             wallet[u] = 0 + TotalAmount(rows)
        /\ \A k \in rows :
             LET earlier == {j \in rows : j < k}
             IN  IF earlier = {}
                   THEN transactions[k].balance_before = 0
                   ELSE \E j \in earlier :
                          /\ \A i \in earlier : i <= j
                          /\ transactions[k].balance_before = transactions[j].balance_after

\* Two credits and the debit of a session end are recorded and no request is
\* in flight.
C25_Witness ==
  /\ \A p \in Procs : pc[p] = "idle"
  /\ Len(transactions) = 3
  /\ transactions[1].type = "recharge" /\ transactions[2].type = "recharge"
  /\ transactions[3].type = "debit" /\ transactions[3].amount < 0
  /\ wallet["u1"] = 10000 + transactions[3].amount

\* C26: a step of a start whose user has no active session changes neither
\* the balances nor the transactions, and the start that inserts the session
\* is answered with the balance as it was; an active session blocks neither
\* a recharge (a valid amount goes on to the balance write and is added in
\* full) nor a debit (it is refused exactly when the balance is below the
\* amount, and otherwise takes the amount off the full balance).
C26_PreflightNotReservation ==
  [][\A p \in Procs :
       LET active(u) == {i \in 1..Len(sessions) :
                           sessions[i].user_id = u /\ sessions[i].status = "active"}
       IN  /\ (/\ pc'[p] # pc[p] \/ loc'[p] # loc[p]
               /\ loc[p].op = "start" \/ loc'[p].op = "start"
               /\ active(IF loc[p].op = "start" THEN loc[p].user ELSE loc'[p].user) = {}) =>
                 wallet' = wallet /\ transactions' = transactions
           /\ (pc[p] = "r_update" /\ pc'[p] = "r_insert" /\ active(loc[p].user) # {}) =>
                 wallet'[loc[p].user] = wallet[loc[p].user] + loc[p].amount
           /\ (pc[p] = "d_read" /\ pc'[p] # "d_read" /\ active(loc[p].user) # {}) =>
                 /\ pc'[p] = "d_update" <=> wallet[loc[p].user] >= loc[p].amount
                 /\ pc'[p] = "d_update" =>
                      loc'[p].newBalance = wallet[loc[p].user] - loc[p].amount]_vars

\* The last request was a recharge made while the user's session was active,
\* and the balance holds both credits in full.
C26_Witness ==
  /\ pc["p1"] = "idle" /\ loc["p1"].op = "recharge" /\ loc["p1"].code = "OK"
  /\ Len(sessions) = 1 /\ sessions[1].status = "active"
  /\ sessions[1].user_id = "u1"
  /\ Len(transactions) = 2
  /\ transactions[1].type = "recharge" /\ transactions[2].type = "recharge"
  /\ transactions[2].balance_before = transactions[1].balance_after
  /\ wallet["u1"] = transactions[1].amount + transactions[2].amount

C28_CreditNotRolledBack ==
  [][/\ (/\ pc["p1"] = "r_insert"
         /\ pc'["p1"] = "idle"
         /\ transactions' = transactions)
        => /\ wallet' = wallet
           /\ wallet'[loc["p1"].user] =
                 loc["p1"].balanceBefore + loc["p1"].amount
           /\ loc'["p1"].op = "recharge"
           /\ loc'["p1"].code = "OK"
           /\ loc'["p1"].newBalance = wallet'[loc["p1"].user]
      /\ \A u \in FaultUsers \ DOMAIN wallet, amount \in FaultAmounts :
           RechargeRead("p1", u, amount)
             => /\ loc'["p1"].code = "NOT_FOUND"
                /\ pc'["p1"] = "idle"
                /\ wallet' = wallet
                /\ transactions' = transactions
                /\ sessions' = sessions
                /\ astrologers' = astrologers]_vars

\* The balance of u1 was raised with no transaction row, and the last
\* request, a recharge of a user without a row, was answered NOT_FOUND.
C28_Witness ==
  /\ wallet["u1"] = 5000
  /\ transactions = <<>>
  /\ pc["p1"] = "idle"
  /\ loc["p1"].op = "recharge"
  /\ loc["p1"].code = "NOT_FOUND"

\* The sessions with astrologer a that were completed.
CompletedWith(a) ==
  {sid \in SessionIds :
     sessions[sid].astrologer_id = a /\ sessions[sid].status = "completed"}

\* C29: an end whose increment of the call counter succeeds raises the
\* total_calls of the session's astrologer by exactly 1 and of no other; an
\* end whose increment fails leaves the counters alone; either way the session
\* stays completed, the debit row and the balance stand, and the response is
\* the success response with the cost, the duration, the remaining balance
\* and the id of the debit.  No astrologer is counted more often than sessions
\* were completed with them.
C29_CallCounterBestEffort ==
  /\ [](\A a \in DOMAIN astrologers :
          astrologers[a].total_calls <= Cardinality(CompletedWith(a)))
  /\ [][LET l == loc["p1"]
            sid == l.sid
        IN  /\ EndRpc("p1") =>
                 astrologers' = [astrologers EXCEPT
                   ![sessions[sid].astrologer_id].total_calls = @ + 1]
            /\ EndRpcFails("p1") => astrologers' = astrologers
            /\ (pc["p1"] = "e_rpc" /\ pc'["p1"] # "e_rpc") =>
                 /\ pc'["p1"] = "idle"
                 /\ sessions' = sessions
                 /\ sessions[sid].status = "completed"
                 /\ wallet' = wallet
                 /\ transactions' = transactions
                 /\ l.txId \in DebitsOf(sid)
                 /\ transactions[l.txId].amount = 0 - sessions[sid].total_cost
                 /\ transactions[l.txId].balance_after = wallet[l.user]
                 /\ loc'["p1"].op = "end"
                 /\ loc'["p1"].code = "OK"
                 /\ loc'["p1"].sid = sid
                 /\ loc'["p1"].amount = sessions[sid].total_cost
                 /\ loc'["p1"].duration = sessions[sid].duration
                 /\ loc'["p1"].newBalance = wallet[l.user]
                 /\ loc'["p1"].txId = l.txId]_vars

\* An end of session 1 was answered with the success response although the
\* increment failed: the session is completed and paid, the counter is 0.
C29_Witness ==
  /\ pc["p1"] = "idle"
  /\ loc["p1"].op = "end"
  /\ loc["p1"].code = "OK"
  /\ loc["p1"].sid = 1
  /\ sessions[1].status = "completed"
  /\ loc["p1"].txId \in DebitsOf(1)
  /\ loc["p1"].amount = sessions[1].total_cost
  /\ astrologers[sessions[1].astrologer_id].total_calls = 0

\* The astrologer was active once and both availability flags are off.
SweptOffline(a) ==
  /\ a \in DOMAIN availability
  /\ availability[a].last_activity_at # NONE
  /\ ~availability[a].chat_available
  /\ ~availability[a].call_available

\* C30: a start for an astrologer whom the job has set offline, and who has
\* not switched availability on since, is refused as unavailable.
C30_OfflineTakesNoSessions ==
  [][\A ctrl \in Controllers, u \in OfflineUsers, a \in OfflineAstrologers,
        stype \in OfflineSessionTypes :
        (SweptOffline(a) /\ StartAstrologer("p1", ctrl, u, a, stype))
          => /\ pc'["p1"] = "idle"
             /\ loc'["p1"].code \in {"BAD_REQUEST", "VALIDATION_ERROR"}]_vars

====
